---------------------------- MODULE Spec2Model ----------------------------
(***************************************************************************)
(* Model of reindex_all.py: a batch driver that rebuilds the vector-search *)
(* index of every knowledge base, every standalone file and every file     *)
(* referenced from a user folder of an Open WebUI installation.            *)
(*                                                                         *)
(* The driver is single threaded.  One action of the model is one call of  *)
(* an external service (catalog, vector store, indexing pipeline) together *)
(* with the local code that follows it up to the next call, or one loop    *)
(* head.  Every external call may raise; what the driver does then is read *)
(* off the try/except blocks of the source.                                *)
(*                                                                         *)
(* The catalog is external: what its calls return is drawn at the call,    *)
(* and the fields of a snapshot record (the data of a knowledge base, of a *)
(* file, of a folder, a reference of a folder) are drawn when the loop     *)
(* reads them; user_folders and folder_files hold the number of elements   *)
(* the loop has not read yet.  The vector store and the set of knowledge   *)
(* bases are state, because the driver changes them.  A call of            *)
(* process_file that succeeds leaves the documents of the file, tagged     *)
(* with its id, in the target collection; one that raises leaves the       *)
(* store as it was.                                                        *)
(***************************************************************************)
EXTENDS Integers, Sequences, FiniteSets, TLC

(***************************************************************************)
(* Bounds of the model.                                                    *)
(***************************************************************************)
MaxFiles == 2
MaxKBs == 2
MaxUsers == 2
MaxFolders == 1
MaxRefs == 1
MaxRuns == 2
MaxFailed == 12

FileIds == 1..MaxFiles
KBIds == 1..MaxKBs

(* all_failed[:10] and len(all_failed) - 10 in main *)
ShowLimit == 10

VARIABLES
    (* the environment *)
    appState,            \* what `from open_webui.main import app` yields
    adminUser,           \* TRUE iff the catalog holds a super admin user
    Knowledges,          \* the ids of the knowledge bases in the catalog
    VECTOR_DB,           \* collection name -> its documents, or NoCollection
    (* main *)
    pc, exitCode,
    kb_success, kb_deleted,
    file_success, file_failed,
    folder_file_success, folder_file_failed,
    shown, more,         \* the failure lines and the overflow count printed
    (* locals of the sweep that is running *)
    knowledge_bases, total_kbs, kb_idx, knowledge_base,
    deleted_knowledge_bases,
    files, file, failed_files, success_count,
    total_files, i, skipped_count,
    all_users, user_folders, folder_files, file_ref, processed_file_ids,
    file_id,
    (* observation of the run *)
    calls,               \* the external calls made for the entity at hand
    escaped,             \* the call whose exception left a sweep, or "none"
    procCount,           \* process_file calls of this run, per sweep and file
    run,                 \* 1 for the first run, 2 for the rerun, ...
    completed            \* files reindexed by the standalone sweep of the
                         \* run that was interrupted last

envVars == <<appState, adminUser, Knowledges, VECTOR_DB>>
mainVars == <<exitCode, kb_success, kb_deleted, file_success, file_failed,
              folder_file_success, folder_file_failed, shown, more>>
kbVars == <<knowledge_bases, total_kbs, kb_idx, knowledge_base,
            deleted_knowledge_bases>>
fileVars == <<files, file, failed_files, success_count>>
sfVars == <<total_files, i, skipped_count>>
ffVars == <<all_users, user_folders, folder_files, file_ref, processed_file_ids,
           file_id>>
runVars == <<run, completed>>
obsVars == <<calls, escaped, procCount, runVars>>

vars == <<envVars, pc, mainVars, kbVars, fileVars, sfVars, ffVars, obsVars>>

(***************************************************************************)
(* Values.                                                                 *)
(***************************************************************************)
(* a collection that does not exist; documents left by a file that is gone *)
NoCollection == {-1}
StaleDocs == {0}

(* collection names: knowledge_base.id and f"file-{file.id}" *)
KBCollection(k) == <<"kb", k>>
FileCollection(f) == <<"file", f>>
NoName == <<"none", 0>>
CollNames == {KBCollection(k) : k \in KBIds} \cup {FileCollection(f) : f \in FileIds}

Filename(f) == <<"filename", f>>
Unknown == <<"filename", 0>>
(* str(e) of the exception raised by the call `op` *)
ErrorText(op) == <<"error", op>>

RECURSIVE SeqsUpTo(_, _)
SeqsUpTo(S, n) ==
    IF n = 0 THEN {<<>>}
    ELSE LET shorter == SeqsUpTo(S, n - 1)
         IN  shorter \cup {Append(s, x) : s \in shorter, x \in S}

Range(s) == {s[n] : n \in 1..Len(s)}
NoDup(s) == Cardinality(Range(s)) = Len(s)
Min(a, b) == IF a < b THEN a ELSE b

(* the ids of S in ascending order: the order of an enumeration *)
Ordered(S) ==
    CHOOSE s \in [1..Cardinality(S) -> S] :
        \A a, b \in 1..Cardinality(S) : a < b => s[a] < s[b]

(* knowledge_base.data: None, something that is no dict, or a dict; a dict  *)
(* is described by whether it has any key and by its "file_ids" entry       *)
(* (absent reads as [] by data.get("file_ids", []))                         *)
KBDatas ==
    {[kind |-> "none", keys |-> FALSE, file_ids |-> <<>>],
     [kind |-> "notdict", keys |-> FALSE, file_ids |-> <<>>],
     [kind |-> "dict", keys |-> FALSE, file_ids |-> <<>>]}
    \cup {[kind |-> "dict", keys |-> TRUE, file_ids |-> s] :
             s \in {t \in SeqsUpTo(FileIds, MaxFiles) : NoDup(t)}}

(* file.data: None, a dict without content, or a dict with content *)
FileDatas == {"none", "nocontent", "content"}

(* a folder file reference: its "type" and its "id" (0: no id) *)
FileRefs == [type : {"file"}, id : FileIds \cup {0}]
            \cup {[type |-> "collection", id |-> 1]}

(* folder.data: None, a dict without "files", or a dict whose "files" list   *)
(* has `files` references                                                    *)
FolderDatas ==
    {[kind |-> "none", files |-> 0], [kind |-> "nofiles", files |-> 0]}
    \cup {[kind |-> "files", files |-> n] : n \in 0..MaxRefs}

NoKB == [id |-> 0, data |-> [kind |-> "none", keys |-> FALSE, file_ids |-> <<>>]]
NoFile == [id |-> 0, data |-> "none"]
NoRef == [type |-> "none", id |-> 0]

(* an external call: its name, the file id and the collection or entity it  *)
(* is about, and how it ended                                               *)
Call(op, f, on, out) == [op |-> op, file |-> f, on |-> on, out |-> out]

Sweeps == {"sf", "ff"}
NoProc == [s \in Sweeps |-> [f \in FileIds |-> 0]]

(***************************************************************************)
(* The external services, as far as the driver observes them.              *)
(***************************************************************************)
(* VECTOR_DB_CLIENT.has_collection *)
HasCollection(db, name) == db[name] # NoCollection

(* VECTOR_DB_CLIENT.query(collection_name, filter={"file_id": id}):        *)
(* the documents of the collection that are tagged with the file id         *)
Query(db, name, f) == db[name] \cap {f}

(* a variant that drops every collection of the store *)
DeleteCollectionAll(db, name) == [n \in DOMAIN db |-> NoCollection]

(* VECTOR_DB_CLIENT.delete_collection *)
DeleteCollection(db, name) == [db EXCEPT ![name] = NoCollection]

(* process_file on success: the documents of the file are in the collection *)
ProcessFile(db, name, f) ==
    [db EXCEPT ![name] = IF @ = NoCollection THEN {f} ELSE @ \cup {f}]

(* Files.get_files_by_ids: those of the ids that the catalog resolves *)
GetFilesByIds(ids, resolved) == SelectSeq(ids, LAMBDA f : f \in resolved)

(***************************************************************************)
(* Python truth tests of the source.                                        *)
(***************************************************************************)
(* a variant that tests `not knowledge_base.data` only *)
InvalidKBNoTypeTest(data) == data.kind = "none" \/ (data.kind = "dict" /\ ~data.keys)

(* not knowledge_base.data or not isinstance(knowledge_base.data, dict) *)
InvalidKB(data) == data.kind # "dict" \/ ~data.keys

(* a variant that tests `not file.data` only *)
NoContentNoneOnly(data) == data = "none"

(* not file.data or not file.data.get("content") *)
NoContent(data) == data # "content"

(* a variant that never finds embeddings *)
AlreadyIndexedNever(result) == FALSE

(* result and len(result.ids[0]) > 0 *)
AlreadyIndexed(result) == result # {}

(* not folder.data or "files" not in folder.data, then: not folder_files *)
SkipFolder(data) == data.kind # "files" \/ data.files = 0

(***************************************************************************)
(* Initial state: before main runs.                                        *)
(***************************************************************************)
(* the variables of the program, as the interpreter starts it *)
ProgramStart ==
    /\ pc = "start"
    /\ exitCode = 0
    /\ kb_success = 0 /\ kb_deleted = <<>>
    /\ file_success = 0 /\ file_failed = <<>>
    /\ folder_file_success = 0 /\ folder_file_failed = <<>>
    /\ shown = <<>> /\ more = 0
    /\ knowledge_bases = <<>> /\ total_kbs = 0 /\ kb_idx = 0
    /\ knowledge_base = NoKB
    /\ deleted_knowledge_bases = <<>>
    /\ files = <<>> /\ file = NoFile /\ failed_files = <<>> /\ success_count = 0
    /\ total_files = 0 /\ i = 0 /\ skipped_count = 0
    /\ all_users = <<>> /\ user_folders = 0 /\ folder_files = 0
    /\ file_ref = NoRef /\ processed_file_ids = {} /\ file_id = 0
    /\ calls = <<>>
    /\ escaped = "none"
    /\ procCount = NoProc

(* the vector stores the run may find: a knowledge base of the catalog has *)
(* no collection or a stale one; a file has no collection, an empty one or  *)
(* one that holds its documents                                             *)
InitialStores(kbs) ==
    {db \in [CollNames -> {NoCollection, {}, StaleDocs} \cup {{f} : f \in FileIds}] :
        /\ \A k \in kbs : db[KBCollection(k)] \in {NoCollection, StaleDocs}
        /\ \A k \in KBIds \ kbs : db[KBCollection(k)] = NoCollection
        /\ \A f \in FileIds : db[FileCollection(f)] \in {NoCollection, {}, {f}}}

Init ==
    /\ appState \in {"ready", "no_embedding", "import_error"}
    /\ adminUser \in BOOLEAN
    /\ Knowledges \in {1..n : n \in 0..MaxKBs}
    /\ VECTOR_DB \in InitialStores(Knowledges)
    /\ ProgramStart
    /\ run = 1
    /\ completed = {}

(* a variant that ends the run with exit code 0 *)
MainExceptExitZero(op) ==
    /\ pc' = "exit"
    /\ exitCode' = 0
    /\ escaped' = op
    /\ calls' = Append(calls, Call(op, 0, NoName, "raise"))
    /\ UNCHANGED <<kb_success, kb_deleted, file_success, file_failed,
                   folder_file_success, folder_file_failed, shown, more>>
    /\ UNCHANGED <<envVars, kbVars, fileVars, sfVars, ffVars, procCount, runVars>>

(***************************************************************************)
(* main: the except clause and the precondition check.                     *)
(***************************************************************************)
(* except Exception in main: an exception left a sweep; sys.exit(1) *)
MainExcept(op) ==
    /\ pc' = "exit"
    /\ exitCode' = 1
    /\ escaped' = op
    /\ calls' = Append(calls, Call(op, 0, NoName, "raise"))
    /\ UNCHANGED <<kb_success, kb_deleted, file_success, file_failed,
                   folder_file_success, folder_file_failed, shown, more>>
    /\ UNCHANGED <<envVars, kbVars, fileVars, sfVars, ffVars, procCount, runVars>>

(* from open_webui.main import app; hasattr(app.state, 'EMBEDDING_FUNCTION') *)
MainStart ==
    /\ pc = "start"
    /\ IF appState = "ready"
       THEN /\ pc' = "kb_admin"
            /\ exitCode' = exitCode
       ELSE /\ pc' = "exit"
            /\ exitCode' = 1
    /\ UNCHANGED <<kb_success, kb_deleted, file_success, file_failed,
                   folder_file_success, folder_file_failed, shown, more>>
    /\ UNCHANGED <<envVars, kbVars, fileVars, sfVars, ffVars, obsVars>>

(* admin_user = Users.get_super_admin_user(), the first call of each sweep *)
AdminCall(out) == Call("get_super_admin_user", 0, NoName, out)

(* a variant after which main goes on to step 3 *)
KbReturnSkipsFiles(count, deleted) ==
    /\ pc' = "ff_admin"
    /\ kb_success' = count
    /\ kb_deleted' = deleted
    /\ knowledge_bases' = <<>> /\ total_kbs' = 0 /\ kb_idx' = 0
    /\ knowledge_base' = NoKB
    /\ deleted_knowledge_bases' = <<>>
    /\ files' = <<>> /\ file' = NoFile /\ failed_files' = <<>>
    /\ success_count' = 0
    /\ UNCHANGED <<exitCode, file_success, file_failed, folder_file_success,
                   folder_file_failed, shown, more>>
    /\ UNCHANGED <<envVars, sfVars, ffVars, escaped, procCount, runVars>>

(***************************************************************************)
(* reindex_knowledge_bases                                                 *)
(***************************************************************************)
(* return success_count, deleted_knowledge_bases; main goes on to step 2 *)
KbReturn(count, deleted) ==
    /\ pc' = "sf_admin"
    /\ kb_success' = count
    /\ kb_deleted' = deleted
    /\ knowledge_bases' = <<>> /\ total_kbs' = 0 /\ kb_idx' = 0
    /\ knowledge_base' = NoKB
    /\ deleted_knowledge_bases' = <<>>
    /\ files' = <<>> /\ file' = NoFile /\ failed_files' = <<>>
    /\ success_count' = 0
    /\ UNCHANGED <<exitCode, file_success, file_failed, folder_file_success,
                   folder_file_failed, shown, more>>
    /\ UNCHANGED <<envVars, sfVars, ffVars, escaped, procCount, runVars>>

KbAdmin ==
    /\ pc = "kb_admin"
    /\ \/ MainExcept("get_super_admin_user")
       \/ /\ ~adminUser
          /\ calls' = <<AdminCall("none")>>
          /\ KbReturn(0, <<>>)
       \/ /\ adminUser
          /\ calls' = <<AdminCall("ok")>>
          /\ pc' = "kb_enum"
          /\ UNCHANGED <<envVars, mainVars, kbVars, fileVars, sfVars, ffVars,
                         escaped, procCount, runVars>>

KbEnumerate ==
    /\ pc = "kb_enum"
    /\ \/ MainExcept("get_knowledge_bases")
       \/ /\ calls' = <<Call("get_knowledge_bases", 0, NoName, "ok")>>
          /\ knowledge_bases' = Ordered(Knowledges)
          /\ total_kbs' = Cardinality(Knowledges)
          /\ kb_idx' = 0
          /\ deleted_knowledge_bases' = <<>>
          /\ success_count' = 0
          /\ pc' = "kb_loop"
          /\ UNCHANGED <<envVars, mainVars, knowledge_base, files, file,
                         failed_files, sfVars, ffVars, escaped, procCount, runVars>>

(* a variant that sends every knowledge base to the delete *)
KbAfterDataTestDeleteAll(data) == "kb_delete_invalid"

(* where the loop goes for a knowledge base whose data it has read *)
KbAfterDataTest(data) == IF InvalidKB(data) THEN "kb_delete_invalid" ELSE "kb_resolve"

(* the head of `for kb_idx, knowledge_base in enumerate(knowledge_bases, 1)` *)
(* and the test of knowledge_base.data                                       *)
KbLoop ==
    /\ pc = "kb_loop"
    /\ IF knowledge_bases = <<>>
       THEN /\ calls' = calls
            /\ KbReturn(success_count, deleted_knowledge_bases)
       ELSE /\ calls' = <<>>
            /\ \E data \in KBDatas :
                 /\ knowledge_base' = [id |-> Head(knowledge_bases), data |-> data]
                 /\ pc' = KbAfterDataTest(data)
            /\ knowledge_bases' = Tail(knowledge_bases)
            /\ kb_idx' = kb_idx + 1
            /\ files' = <<>> /\ file' = NoFile /\ failed_files' = <<>>
            /\ UNCHANGED <<envVars, mainVars, total_kbs, deleted_knowledge_bases,
                           success_count, sfVars, ffVars, escaped, procCount,
                           runVars>>

(* deleted_knowledge_bases.append(knowledge_base.id), after the delete *)
KbRecordDeleted(deleted, k) == Append(deleted, k)

(* Knowledges.delete_knowledge_by_id inside try/except, then continue *)
KbDeleteInvalid ==
    /\ pc = "kb_delete_invalid"
    /\ \/ /\ calls' = Append(calls, Call("delete_knowledge_by_id", 0,
                                         KBCollection(knowledge_base.id), "ok"))
          /\ Knowledges' = Knowledges \ {knowledge_base.id}
          /\ deleted_knowledge_bases' =
                 KbRecordDeleted(deleted_knowledge_bases, knowledge_base.id)
       \/ /\ calls' = Append(calls, Call("delete_knowledge_by_id", 0,
                                         KBCollection(knowledge_base.id), "raise"))
          /\ UNCHANGED <<Knowledges, deleted_knowledge_bases>>
    /\ pc' = "kb_loop"
    /\ UNCHANGED <<appState, adminUser, VECTOR_DB, mainVars,
                   knowledge_bases, total_kbs, kb_idx, knowledge_base,
                   fileVars, sfVars, ffVars, escaped, procCount, runVars>>

(* file_ids = knowledge_base.data.get("file_ids", []);                     *)
(* files = Files.get_files_by_ids(file_ids); the outer except continues    *)
KbResolve ==
    /\ pc = "kb_resolve"
    /\ \/ /\ calls' = Append(calls, Call("get_files_by_ids", 0,
                                         KBCollection(knowledge_base.id), "ok"))
          /\ \E resolved \in SUBSET FileIds :
               files' = GetFilesByIds(knowledge_base.data.file_ids, resolved)
          /\ pc' = "kb_has"
       \/ /\ calls' = Append(calls, Call("get_files_by_ids", 0,
                                         KBCollection(knowledge_base.id), "raise"))
          /\ files' = files
          /\ pc' = "kb_loop"
    /\ UNCHANGED <<envVars, mainVars, kbVars, file, failed_files, success_count,
                   sfVars, ffVars, escaped, procCount, runVars>>

(* a variant that goes on to the member loop, as the file sweeps do *)
KbCleanupExceptGoOn == "kb_files"

(* where a knowledge base goes when checking or deleting its collection    *)
(* raised: log_error and continue                                          *)
KbCleanupExcept == "kb_loop"

(* if VECTOR_DB_CLIENT.has_collection(collection_name=knowledge_base.id) *)
KbHas ==
    /\ pc = "kb_has"
    /\ LET name == KBCollection(knowledge_base.id)
       IN  \/ /\ HasCollection(VECTOR_DB, name)
              /\ calls' = Append(calls, Call("has_collection", 0, name, "true"))
              /\ pc' = "kb_delete"
           \/ /\ ~HasCollection(VECTOR_DB, name)
              /\ calls' = Append(calls, Call("has_collection", 0, name, "false"))
              /\ pc' = "kb_files"
           \/ /\ calls' = Append(calls, Call("has_collection", 0, name, "raise"))
              /\ pc' = KbCleanupExcept
    /\ UNCHANGED <<envVars, mainVars, kbVars, fileVars, sfVars, ffVars,
                   escaped, procCount, runVars>>

(* VECTOR_DB_CLIENT.delete_collection(collection_name=knowledge_base.id) *)
KbDelete ==
    /\ pc = "kb_delete"
    /\ LET name == KBCollection(knowledge_base.id)
       IN  \/ /\ calls' = Append(calls, Call("delete_collection", 0, name, "ok"))
              /\ VECTOR_DB' = DeleteCollection(VECTOR_DB, name)
              /\ pc' = "kb_files"
           \/ /\ calls' = Append(calls, Call("delete_collection", 0, name, "raise"))
              /\ VECTOR_DB' = VECTOR_DB
              /\ pc' = KbCleanupExcept
    /\ UNCHANGED <<appState, adminUser, Knowledges, mainVars, kbVars,
                   fileVars, sfVars, ffVars, escaped, procCount, runVars>>

(* a variant that counts the knowledge base whatever failed *)
KbCountAlways(count, failed) == count + 1

(* a variant that counts no knowledge base *)
KbCountNever(count, failed) == count

(* `if failed_files: ... else: success_count += 1` after the member loop *)
KbCount(count, failed) == IF failed # <<>> THEN count ELSE count + 1

(* the head of `for i, file in enumerate(files, 1)` and the code after the *)
(* loop                                                                     *)
KbFileLoop ==
    /\ pc = "kb_files"
    /\ IF files = <<>>
       THEN /\ success_count' = KbCount(success_count, failed_files)
            /\ pc' = "kb_loop"
            /\ UNCHANGED <<files, file, failed_files>>
       ELSE /\ file' = [id |-> Head(files), data |-> "none"]
            /\ files' = Tail(files)
            /\ pc' = "kb_process"
            /\ UNCHANGED <<failed_files, success_count>>
    /\ UNCHANGED <<envVars, mainVars, kbVars, sfVars, ffVars, obsVars>>

(* variants of the except clause of the member loop: one that raises       *)
(* again, one that leaves the member loop                                  *)
KbFileExceptReraise(failed, f, op) ==
    [failed_files |-> Append(failed, [file_id |-> f, error |-> ErrorText(op)]),
     pc |-> "kb_files",
     escaped |-> op]

KbFileExceptAbort(failed, f, op) ==
    [failed_files |-> Append(failed, [file_id |-> f, error |-> ErrorText(op)]),
     pc |-> "kb_loop",
     escaped |-> "none"]

(* the except clause of the member loop: the record appended to            *)
(* failed_files, and continue; nothing leaves the sweep                     *)
KbFileExcept(failed, f, op) ==
    [failed_files |-> Append(failed, [file_id |-> f, error |-> ErrorText(op)]),
     pc |-> "kb_files",
     escaped |-> "none"]

(* what an except clause leaves behind: h is the outcome of the clause *)
Handled(h) ==
    /\ failed_files' = h.failed_files
    /\ escaped' = h.escaped
    /\ pc' = IF h.escaped = "none" THEN h.pc ELSE "exit"
    /\ exitCode' = IF h.escaped = "none" THEN exitCode ELSE 1

(* process_file(request, ProcessFileForm(file_id, collection_name=kb.id)) *)
KbProcess ==
    /\ pc = "kb_process"
    /\ LET name == KBCollection(knowledge_base.id)
       IN  \/ /\ calls' = Append(calls, Call("process_file", file.id, name, "ok"))
              /\ VECTOR_DB' = ProcessFile(VECTOR_DB, name, file.id)
              /\ pc' = "kb_files"
              /\ UNCHANGED <<failed_files, escaped, exitCode>>
           \/ /\ calls' = Append(calls, Call("process_file", file.id, name, "raise"))
              /\ VECTOR_DB' = VECTOR_DB
              /\ Handled(KbFileExcept(failed_files, file.id, "process_file"))
    /\ UNCHANGED <<kb_success, kb_deleted, file_success, file_failed,
                   folder_file_success, folder_file_failed, shown, more>>
    /\ UNCHANGED <<appState, adminUser, Knowledges, kbVars,
                   files, file, success_count, sfVars, ffVars,
                   procCount, runVars>>

(***************************************************************************)
(* reindex_standalone_files                                                *)
(***************************************************************************)
(* return success_count, failed_files; main goes on to step 3 *)
SfReturn(count, failed) ==
    /\ pc' = "ff_admin"
    /\ file_success' = count
    /\ file_failed' = failed
    /\ files' = <<>> /\ file' = NoFile /\ failed_files' = <<>>
    /\ success_count' = 0
    /\ total_files' = 0 /\ i' = 0 /\ skipped_count' = 0
    /\ UNCHANGED <<exitCode, kb_success, kb_deleted, folder_file_success,
                   folder_file_failed, shown, more>>
    /\ UNCHANGED <<envVars, kbVars, ffVars, escaped, procCount, runVars>>

SfAdmin ==
    /\ pc = "sf_admin"
    /\ \/ MainExcept("get_super_admin_user")
       \/ /\ ~adminUser
          /\ calls' = <<AdminCall("none")>>
          /\ SfReturn(0, <<>>)
       \/ /\ adminUser
          /\ calls' = <<AdminCall("ok")>>
          /\ pc' = "sf_enum"
          /\ UNCHANGED <<envVars, mainVars, kbVars, fileVars, sfVars, ffVars,
                         escaped, procCount, runVars>>

(* files = Files.get_files() *)
SfEnumerate ==
    /\ pc = "sf_enum"
    /\ \/ MainExcept("get_files")
       \/ /\ calls' = <<Call("get_files", 0, NoName, "ok")>>
          /\ \E n \in 0..MaxFiles :
               /\ files' = Ordered(1..n)
               /\ total_files' = n
          /\ success_count' = 0
          /\ failed_files' = <<>>
          /\ skipped_count' = 0
          /\ i' = 0
          /\ pc' = "sf_loop"
          /\ UNCHANGED <<envVars, mainVars, kbVars, file, ffVars, escaped,
                         procCount, runVars>>

(* a variant that goes on with every file, with or without content *)
SfAfterContentTestAll(data) == "sf_has"

(* where the loop goes for a file whose data it has read *)
SfAfterContentTest(data) == IF NoContent(data) THEN "sf_loop" ELSE "sf_has"

(* the head of `for i, file in enumerate(files, 1)` and the content test *)
SfLoop ==
    /\ pc = "sf_loop"
    /\ IF files = <<>>
       THEN /\ calls' = calls
            /\ SfReturn(success_count, failed_files)
       ELSE /\ calls' = <<>>
            /\ \E data \in FileDatas :
                 /\ file' = [id |-> Head(files), data |-> data]
                 /\ pc' = SfAfterContentTest(data)
                 /\ skipped_count' = IF NoContent(data) THEN skipped_count + 1
                                     ELSE skipped_count
            /\ files' = Tail(files)
            /\ i' = i + 1
            /\ UNCHANGED <<envVars, mainVars, kbVars, failed_files, success_count,
                           total_files, ffVars, escaped, procCount, runVars>>

(* where a file goes when the check for existing embeddings raised:        *)
(* `except Exception as e: pass`, then the code below the try               *)
CheckExcept(sweep) == IF sweep = "sf" THEN "sf_has2" ELSE "ff_has2"

(* a variant that goes on to the cleanup whatever the query returned *)
AfterQueryNoSkip(sweep, result) == IF sweep = "sf" THEN "sf_has2" ELSE "ff_has2"

(* where a file goes after a query that returned `result` *)
AfterQuery(sweep, result) ==
    IF AlreadyIndexed(result)
    THEN (IF sweep = "sf" THEN "sf_loop" ELSE "ff_refs")
    ELSE (IF sweep = "sf" THEN "sf_has2" ELSE "ff_has2")

(* a variant that gives the file up: back to the head of the loop *)
CleanupExceptAbort(sweep) == IF sweep = "sf" THEN "sf_loop" ELSE "ff_refs"

(* where a file goes when checking or deleting its old collection raised:  *)
(* `except Exception as e: pass`, then process_file                         *)
CleanupExcept(sweep) == IF sweep = "sf" THEN "sf_process" ELSE "ff_process"

(* try: if VECTOR_DB_CLIENT.has_collection(file_collection) *)
SfHas ==
    /\ pc = "sf_has"
    /\ LET name == FileCollection(file.id)
       IN  \/ /\ HasCollection(VECTOR_DB, name)
              /\ calls' = Append(calls, Call("has_collection", file.id, name, "true"))
              /\ pc' = "sf_query"
           \/ /\ ~HasCollection(VECTOR_DB, name)
              /\ calls' = Append(calls, Call("has_collection", file.id, name, "false"))
              /\ pc' = "sf_has2"
           \/ /\ calls' = Append(calls, Call("has_collection", file.id, name, "raise"))
              /\ pc' = CheckExcept("sf")
    /\ UNCHANGED <<envVars, mainVars, kbVars, fileVars, sfVars, ffVars,
                   escaped, procCount, runVars>>

(* result = VECTOR_DB_CLIENT.query(...); a non-empty result skips the file *)
SfQuery ==
    /\ pc = "sf_query"
    /\ LET name == FileCollection(file.id)
           result == Query(VECTOR_DB, name, file.id)
       IN  \/ /\ calls' = Append(calls, Call("query", file.id, name,
                                IF AlreadyIndexed(result) THEN "hit" ELSE "empty"))
              /\ pc' = AfterQuery("sf", result)
              /\ skipped_count' = IF pc' = "sf_loop" THEN skipped_count + 1
                                  ELSE skipped_count
           \/ /\ calls' = Append(calls, Call("query", file.id, name, "raise"))
              /\ pc' = CheckExcept("sf")
              /\ skipped_count' = skipped_count
    /\ UNCHANGED <<envVars, mainVars, kbVars, fileVars, total_files, i, ffVars,
                   escaped, procCount, runVars>>

(* "Delete old collection if it exists": try: if has_collection(...) *)
SfHas2 ==
    /\ pc = "sf_has2"
    /\ LET name == FileCollection(file.id)
       IN  \/ /\ HasCollection(VECTOR_DB, name)
              /\ calls' = Append(calls, Call("has_collection", file.id, name, "true"))
              /\ pc' = "sf_delete"
           \/ /\ ~HasCollection(VECTOR_DB, name)
              /\ calls' = Append(calls, Call("has_collection", file.id, name, "false"))
              /\ pc' = "sf_process"
           \/ /\ calls' = Append(calls, Call("has_collection", file.id, name, "raise"))
              /\ pc' = CleanupExcept("sf")
    /\ UNCHANGED <<envVars, mainVars, kbVars, fileVars, sfVars, ffVars,
                   escaped, procCount, runVars>>

(* VECTOR_DB_CLIENT.delete_collection(file_collection) *)
SfDelete ==
    /\ pc = "sf_delete"
    /\ LET name == FileCollection(file.id)
       IN  \/ /\ calls' = Append(calls, Call("delete_collection", file.id, name, "ok"))
              /\ VECTOR_DB' = DeleteCollection(VECTOR_DB, name)
              /\ pc' = "sf_process"
           \/ /\ calls' = Append(calls, Call("delete_collection", file.id, name, "raise"))
              /\ VECTOR_DB' = VECTOR_DB
              /\ pc' = CleanupExcept("sf")
    /\ UNCHANGED <<appState, adminUser, Knowledges, mainVars, kbVars,
                   fileVars, sfVars, ffVars, escaped, procCount, runVars>>

(* variants of the except clause of the standalone loop body: one that     *)
(* appends nothing, one that records no error text                          *)
SfExceptNoRecord(failed, f, op) ==
    [failed_files |-> failed, pc |-> "sf_loop", escaped |-> "none"]

SfExceptNoText(failed, f, op) ==
    [failed_files |-> Append(failed, [file_id |-> f, filename |-> Filename(f),
                                      error |-> ErrorText("")]),
     pc |-> "sf_loop",
     escaped |-> "none"]

(* `except Exception as e` of the standalone loop body: the record         *)
(* appended to failed_files, and continue; nothing leaves the sweep         *)
SfExcept(failed, f, op) ==
    [failed_files |-> Append(failed, [file_id |-> f, filename |-> Filename(f),
                                      error |-> ErrorText(op)]),
     pc |-> "sf_loop",
     escaped |-> "none"]

(* process_file(request, ProcessFileForm(file_id, collection_name=None));   *)
(* success_count += 1, or the except clause of the loop body                *)
SfProcess ==
    /\ pc = "sf_process"
    /\ \/ /\ calls' = Append(calls, Call("process_file", file.id, NoName, "ok"))
          /\ VECTOR_DB' = ProcessFile(VECTOR_DB, FileCollection(file.id), file.id)
          /\ success_count' = success_count + 1
          /\ pc' = "sf_loop"
          /\ UNCHANGED <<failed_files, escaped, exitCode>>
       \/ /\ calls' = Append(calls, Call("process_file", file.id, NoName, "raise"))
          /\ VECTOR_DB' = VECTOR_DB
          /\ success_count' = success_count
          /\ Handled(SfExcept(failed_files, file.id, "process_file"))
    /\ procCount' = [procCount EXCEPT !["sf"][file.id] = @ + 1]
    /\ UNCHANGED <<kb_success, kb_deleted, file_success, file_failed,
                   folder_file_success, folder_file_failed, shown, more>>
    /\ UNCHANGED <<appState, adminUser, Knowledges, kbVars,
                   files, file, sfVars, ffVars, runVars>>

(***************************************************************************)
(* reindex_folder_files                                                    *)
(***************************************************************************)
(* return success_count, failed_files; main goes on to the summary *)
FfReturn(count, failed) ==
    /\ pc' = "summary"
    /\ folder_file_success' = count
    /\ folder_file_failed' = failed
    /\ files' = <<>> /\ file' = NoFile /\ failed_files' = <<>>
    /\ success_count' = 0
    /\ all_users' = <<>> /\ user_folders' = 0 /\ folder_files' = 0
    /\ file_ref' = NoRef /\ processed_file_ids' = {} /\ file_id' = 0
    /\ UNCHANGED <<exitCode, kb_success, kb_deleted, file_success, file_failed,
                   shown, more>>
    /\ UNCHANGED <<envVars, kbVars, sfVars, escaped, procCount, runVars>>

FfAdmin ==
    /\ pc = "ff_admin"
    /\ \/ MainExcept("get_super_admin_user")
       \/ /\ ~adminUser
          /\ calls' = <<AdminCall("none")>>
          /\ FfReturn(0, <<>>)
       \/ /\ adminUser
          /\ calls' = <<AdminCall("ok")>>
          /\ pc' = "ff_enum"
          /\ UNCHANGED <<envVars, mainVars, kbVars, fileVars, sfVars, ffVars,
                         escaped, procCount, runVars>>

(* all_users = Users.get_users(): the admin user is one of them *)
FfEnumerate ==
    /\ pc = "ff_enum"
    /\ \/ MainExcept("get_users")
       \/ /\ calls' = <<Call("get_users", 0, NoName, "ok")>>
          /\ \E n \in 1..MaxUsers : all_users' = Ordered(1..n)
          /\ success_count' = 0
          /\ failed_files' = <<>>
          /\ processed_file_ids' = {}
          /\ pc' = "ff_users"
          /\ UNCHANGED <<envVars, mainVars, kbVars, files, file, sfVars,
                         user_folders, folder_files, file_ref, file_id, escaped,
                         procCount, runVars>>

(* the head of `for user_idx, user in enumerate(all_users, 1)` *)
FfUserLoop ==
    /\ pc = "ff_users"
    /\ IF all_users = <<>>
       THEN /\ calls' = calls
            /\ FfReturn(success_count, failed_files)
       ELSE /\ calls' = <<>>
            /\ all_users' = Tail(all_users)
            /\ pc' = "ff_get_folders"
            /\ UNCHANGED <<envVars, mainVars, kbVars, fileVars, sfVars,
                           user_folders, folder_files, file_ref,
                           processed_file_ids, file_id, escaped, procCount,
                           runVars>>

(* user_folders = Folders.get_folders_by_user_id(user.id), outside any try *)
FfGetFolders ==
    /\ pc = "ff_get_folders"
    /\ \/ MainExcept("get_folders_by_user_id")
       \/ /\ calls' = <<Call("get_folders_by_user_id", 0, NoName, "ok")>>
          /\ user_folders' \in 0..MaxFolders
          /\ pc' = "ff_folders"
          /\ UNCHANGED <<envVars, mainVars, kbVars, fileVars, sfVars, all_users,
                         folder_files, file_ref, processed_file_ids, file_id,
                         escaped, procCount, runVars>>

(* the head of `for folder in user_folders` and the tests of folder.data *)
FfFolderLoop ==
    /\ pc = "ff_folders"
    /\ IF user_folders = 0
       THEN /\ pc' = "ff_users"
            /\ UNCHANGED <<user_folders, folder_files>>
       ELSE /\ user_folders' = user_folders - 1
            /\ \E data \in FolderDatas :
                 /\ folder_files' = IF SkipFolder(data) THEN 0 ELSE data.files
                 /\ pc' = IF SkipFolder(data) THEN "ff_folders" ELSE "ff_refs"
    /\ UNCHANGED <<envVars, mainVars, kbVars, fileVars, sfVars, all_users,
                   file_ref, processed_file_ids, file_id, obsVars>>

(* a variant without the test of processed_file_ids *)
FfTakeRefNoDedup(ref, processed) ==
    /\ ref.type = "file"
    /\ ref.id # 0

(* the tests that let a reference pass: a file reference with an id that   *)
(* has not been processed in this sweep                                    *)
FfTakeRef(ref, processed) ==
    /\ ref.type = "file"
    /\ ref.id # 0
    /\ ref.id \notin processed

(* the head of `for file_ref in folder_files`, the tests of the reference  *)
(* (file_id = file_ref.get("id") is read before the second test) and       *)
(* processed_file_ids.add(file_id)                                         *)
FfRefLoop ==
    /\ pc = "ff_refs"
    /\ IF folder_files = 0
       THEN /\ pc' = "ff_folders"
            /\ UNCHANGED <<folder_files, file_ref, processed_file_ids, file_id,
                           file, calls>>
       ELSE /\ folder_files' = folder_files - 1
            /\ calls' = <<>>
            /\ file' = NoFile
            /\ \E ref \in FileRefs :
                 /\ file_ref' = ref
                 /\ file_id' = IF ref.type = "file" THEN ref.id ELSE file_id
                 /\ IF FfTakeRef(ref, processed_file_ids)
                    THEN /\ processed_file_ids' = processed_file_ids \cup {ref.id}
                         /\ pc' = "ff_get_file"
                    ELSE /\ pc' = "ff_refs"
                         /\ UNCHANGED processed_file_ids
    /\ UNCHANGED <<envVars, mainVars, kbVars, files, failed_files, success_count,
                   sfVars, all_users, user_folders, escaped, procCount, runVars>>

(* `except Exception as e` of the folder loop body: the record appended to *)
(* failed_files, and continue; nothing leaves the sweep                     *)
FfExcept(failed, f, op) ==
    [failed_files |-> Append(failed, [file_id |-> f, error |-> ErrorText(op)]),
     pc |-> "ff_refs",
     escaped |-> "none"]

(* file = Files.get_file_by_id(file_id); if not file: continue;            *)
(* then the content test                                                    *)
FfGetFile ==
    /\ pc = "ff_get_file"
    /\ \/ /\ calls' = Append(calls, Call("get_file_by_id", file_id, NoName, "raise"))
          /\ Handled(FfExcept(failed_files, file_id, "get_file_by_id"))
          /\ file' = file
       \/ /\ calls' = Append(calls, Call("get_file_by_id", file_id, NoName, "none"))
          /\ pc' = "ff_refs"
          /\ UNCHANGED <<failed_files, file, escaped, exitCode>>
       \/ /\ calls' = Append(calls, Call("get_file_by_id", file_id, NoName, "ok"))
          /\ \E data \in FileDatas :
               /\ file' = [id |-> file_id, data |-> data]
               /\ pc' = IF NoContent(data) THEN "ff_refs" ELSE "ff_has"
          /\ UNCHANGED <<failed_files, escaped, exitCode>>
    /\ UNCHANGED <<kb_success, kb_deleted, file_success, file_failed,
                   folder_file_success, folder_file_failed, shown, more>>
    /\ UNCHANGED <<envVars, kbVars, files, success_count, sfVars,
                   ffVars, procCount, runVars>>

FfHas ==
    /\ pc = "ff_has"
    /\ LET name == FileCollection(file.id)
       IN  \/ /\ HasCollection(VECTOR_DB, name)
              /\ calls' = Append(calls, Call("has_collection", file.id, name, "true"))
              /\ pc' = "ff_query"
           \/ /\ ~HasCollection(VECTOR_DB, name)
              /\ calls' = Append(calls, Call("has_collection", file.id, name, "false"))
              /\ pc' = "ff_has2"
           \/ /\ calls' = Append(calls, Call("has_collection", file.id, name, "raise"))
              /\ pc' = CheckExcept("ff")
    /\ UNCHANGED <<envVars, mainVars, kbVars, fileVars, sfVars, ffVars,
                   escaped, procCount, runVars>>

FfQuery ==
    /\ pc = "ff_query"
    /\ LET name == FileCollection(file.id)
           result == Query(VECTOR_DB, name, file.id)
       IN  \/ /\ calls' = Append(calls, Call("query", file.id, name,
                                IF AlreadyIndexed(result) THEN "hit" ELSE "empty"))
              /\ pc' = AfterQuery("ff", result)
           \/ /\ calls' = Append(calls, Call("query", file.id, name, "raise"))
              /\ pc' = CheckExcept("ff")
    /\ UNCHANGED <<envVars, mainVars, kbVars, fileVars, sfVars, ffVars,
                   escaped, procCount, runVars>>

FfHas2 ==
    /\ pc = "ff_has2"
    /\ LET name == FileCollection(file.id)
       IN  \/ /\ HasCollection(VECTOR_DB, name)
              /\ calls' = Append(calls, Call("has_collection", file.id, name, "true"))
              /\ pc' = "ff_delete"
           \/ /\ ~HasCollection(VECTOR_DB, name)
              /\ calls' = Append(calls, Call("has_collection", file.id, name, "false"))
              /\ pc' = "ff_process"
           \/ /\ calls' = Append(calls, Call("has_collection", file.id, name, "raise"))
              /\ pc' = CleanupExcept("ff")
    /\ UNCHANGED <<envVars, mainVars, kbVars, fileVars, sfVars, ffVars,
                   escaped, procCount, runVars>>

FfDelete ==
    /\ pc = "ff_delete"
    /\ LET name == FileCollection(file.id)
       IN  \/ /\ calls' = Append(calls, Call("delete_collection", file.id, name, "ok"))
              /\ VECTOR_DB' = DeleteCollection(VECTOR_DB, name)
              /\ pc' = "ff_process"
           \/ /\ calls' = Append(calls, Call("delete_collection", file.id, name, "raise"))
              /\ VECTOR_DB' = VECTOR_DB
              /\ pc' = CleanupExcept("ff")
    /\ UNCHANGED <<appState, adminUser, Knowledges, mainVars, kbVars,
                   fileVars, sfVars, ffVars, escaped, procCount, runVars>>

FfProcess ==
    /\ pc = "ff_process"
    /\ \/ /\ calls' = Append(calls, Call("process_file", file.id, NoName, "ok"))
          /\ VECTOR_DB' = ProcessFile(VECTOR_DB, FileCollection(file.id), file.id)
          /\ success_count' = success_count + 1
          /\ pc' = "ff_refs"
          /\ UNCHANGED <<failed_files, escaped, exitCode>>
       \/ /\ calls' = Append(calls, Call("process_file", file.id, NoName, "raise"))
          /\ VECTOR_DB' = VECTOR_DB
          /\ success_count' = success_count
          /\ Handled(FfExcept(failed_files, file_id, "process_file"))
    /\ procCount' = [procCount EXCEPT !["ff"][file.id] = @ + 1]
    /\ UNCHANGED <<kb_success, kb_deleted, file_success, file_failed,
                   folder_file_success, folder_file_failed, shown, more>>
    /\ UNCHANGED <<appState, adminUser, Knowledges, kbVars,
                   files, file, sfVars, ffVars, runVars>>

(***************************************************************************)
(* main: the summary and sys.exit(0)                                        *)
(***************************************************************************)
(* failed.get('filename', 'Unknown'), failed['file_id'], failed['error'] *)
FailureLine(failed) ==
    [filename |-> IF "filename" \in DOMAIN failed THEN failed.filename ELSE Unknown,
     file_id |-> failed.file_id,
     error |-> failed.error]

(* a variant that prints a line for every record *)
ShownLinesAll(all_failed) ==
    [n \in 1..Len(all_failed) |-> FailureLine(all_failed[n])]

(* for failed in all_failed[:10] *)
ShownLines(all_failed) ==
    [n \in 1..Min(Len(all_failed), ShowLimit) |-> FailureLine(all_failed[n])]

(* if len(all_failed) > 10: "... and {len(all_failed) - 10} more" *)
MoreCount(all_failed) ==
    IF Len(all_failed) > ShowLimit THEN Len(all_failed) - ShowLimit ELSE 0

MainSummary ==
    /\ pc = "summary"
    /\ calls' = <<>>
    /\ LET all_failed == file_failed \o folder_file_failed
       IN  /\ shown' = ShownLines(all_failed)
           /\ more' = MoreCount(all_failed)
    /\ exitCode' = 0
    /\ pc' = "exit"
    /\ UNCHANGED <<kb_success, kb_deleted, file_success, file_failed,
                   folder_file_success, folder_file_failed>>
    /\ UNCHANGED <<envVars, kbVars, fileVars, sfVars, ffVars, escaped,
                   procCount, runVars>>

(***************************************************************************)
(* The process is killed between two operations and the script is started  *)
(* again: the program starts afresh, the catalog and the vector store are  *)
(* as the killed run left them.                                            *)
(***************************************************************************)
(* the ids of the failure records of a list *)
FailedIds(failed) == {failed[n].file_id : n \in 1..Len(failed)}

(* the files the standalone sweep of this run has reindexed *)
Reindexed ==
    {f \in FileIds : /\ procCount["sf"][f] > 0
                     /\ pc # "sf_process" \/ file.id # f
                     /\ f \notin FailedIds(failed_files) \cup FailedIds(file_failed)}

Interrupt ==
    /\ pc \in {"sf_admin", "sf_enum", "sf_loop", "sf_has", "sf_query", "sf_has2",
               "sf_delete", "sf_process", "ff_admin"}
    /\ run < MaxRuns
    /\ run' = run + 1
    /\ completed' = Reindexed
    /\ pc' = "start"
    /\ exitCode' = 0
    /\ kb_success' = 0 /\ kb_deleted' = <<>>
    /\ file_success' = 0 /\ file_failed' = <<>>
    /\ folder_file_success' = 0 /\ folder_file_failed' = <<>>
    /\ shown' = <<>> /\ more' = 0
    /\ knowledge_bases' = <<>> /\ total_kbs' = 0 /\ kb_idx' = 0
    /\ knowledge_base' = NoKB
    /\ deleted_knowledge_bases' = <<>>
    /\ files' = <<>> /\ file' = NoFile /\ failed_files' = <<>>
    /\ success_count' = 0
    /\ total_files' = 0 /\ i' = 0 /\ skipped_count' = 0
    /\ all_users' = <<>> /\ user_folders' = 0 /\ folder_files' = 0
    /\ file_ref' = NoRef /\ processed_file_ids' = {} /\ file_id' = 0
    /\ calls' = <<>>
    /\ escaped' = "none"
    /\ procCount' = NoProc
    /\ UNCHANGED envVars

(***************************************************************************)
(* The run.                                                                *)
(***************************************************************************)
KbSweep ==
    \/ KbAdmin \/ KbEnumerate \/ KbLoop \/ KbDeleteInvalid \/ KbResolve
    \/ KbHas \/ KbDelete \/ KbFileLoop \/ KbProcess

SfSweep ==
    \/ SfAdmin \/ SfEnumerate \/ SfLoop \/ SfHas \/ SfQuery \/ SfHas2
    \/ SfDelete \/ SfProcess

FfSweep ==
    \/ FfAdmin \/ FfEnumerate \/ FfUserLoop \/ FfGetFolders \/ FfFolderLoop
    \/ FfRefLoop \/ FfGetFile \/ FfHas \/ FfQuery \/ FfHas2 \/ FfDelete
    \/ FfProcess

Next == MainStart \/ KbSweep \/ SfSweep \/ FfSweep \/ MainSummary

Spec == Init /\ [][Next]_vars

(* the run up to the return of reindex_knowledge_bases; the sweep reads no  *)
(* per-file collection                                                      *)
InitKB == Init /\ \A f \in FileIds : VECTOR_DB[FileCollection(f)] = NoCollection
NextKB == MainStart \/ KbSweep
SpecKB == InitKB /\ [][NextKB]_vars

(* the run on an installation that has no knowledge base *)
InitFiles ==
    /\ Init
    /\ Knowledges = {}
    /\ \A k \in KBIds : VECTOR_DB[KBCollection(k)] = NoCollection
NextFiles ==
    \/ MainStart \/ KbAdmin \/ KbEnumerate \/ KbLoop
    \/ SfSweep \/ FfSweep \/ MainSummary
SpecFiles == InitFiles /\ [][NextFiles]_vars

(* runs on an installation that has no knowledge base, each up to the      *)
(* return of reindex_standalone_files, killed and started again            *)
NextResume ==
    \/ MainStart \/ KbAdmin \/ KbEnumerate \/ KbLoop
    \/ SfSweep \/ Interrupt
SpecResume == InitFiles /\ [][NextResume]_vars

(***************************************************************************)
(* The summary of main on its own: the two file sweeps have returned their *)
(* failure lists and main is about to print the summary.  The lists are    *)
(* the ones the except clauses of the sweeps build, of every length up to  *)
(* MaxFailed records together; a file of a folder may also be a standalone *)
(* file that failed before.                                                *)
(***************************************************************************)
(* the list the standalone sweep returns when process_file raised for the  *)
(* files 1..n                                                              *)
RECURSIVE SfFailures(_)
SfFailures(n) ==
    IF n = 0 THEN <<>>
    ELSE SfExcept(SfFailures(n - 1), n, "process_file").failed_files

(* the list the folder sweep returns when `op` raised for the n files      *)
(* after `before`                                                          *)
RECURSIVE FfFailures(_, _, _)
FfFailures(before, n, op) ==
    IF n = 0 THEN <<>>
    ELSE FfExcept(FfFailures(before, n - 1, op), before + n, op).failed_files

InitSummary ==
    /\ appState = "ready"
    /\ adminUser = TRUE
    /\ Knowledges = {}
    /\ VECTOR_DB = [name \in CollNames |-> NoCollection]
    /\ pc = "summary"
    /\ exitCode = 0
    /\ kb_success = 0 /\ kb_deleted = <<>>
    /\ \E a \in 0..MaxFailed : \E b \in 0..(MaxFailed - a) :
         \E before \in {0, a} : \E op \in {"get_file_by_id", "process_file"} :
           /\ file_failed = SfFailures(a)
           /\ folder_file_failed = FfFailures(before, b, op)
    /\ file_success = 0
    /\ folder_file_success = 0
    /\ shown = <<>> /\ more = 0
    /\ knowledge_bases = <<>> /\ total_kbs = 0 /\ kb_idx = 0
    /\ knowledge_base = NoKB
    /\ deleted_knowledge_bases = <<>>
    /\ files = <<>> /\ file = NoFile /\ failed_files = <<>> /\ success_count = 0
    /\ total_files = 0 /\ i = 0 /\ skipped_count = 0
    /\ all_users = <<>> /\ user_folders = 0 /\ folder_files = 0
    /\ file_ref = NoRef /\ processed_file_ids = {} /\ file_id = 0
    /\ calls = <<>>
    /\ escaped = "none"
    /\ procCount = NoProc
    /\ run = 1
    /\ completed = {}
NextSummary == MainSummary
SpecSummary == InitSummary /\ [][NextSummary]_vars

(***************************************************************************)
(* Properties.                                                             *)
(***************************************************************************)
Last(s) == s[Len(s)]
IsPrefix(s, t) == Len(s) <= Len(t) /\ SubSeq(t, 1, Len(s)) = s

(* the names of the calls made for the entity at hand *)
CallOps == {calls[n].op : n \in 1..Len(calls)}
(* the call made last was `op` and ended with `out` *)
JustEnded(op, out) == calls # <<>> /\ Last(calls).op = op /\ Last(calls).out = out
JustRaised(op) == JustEnded(op, "raise")

KbAllPcs == {"kb_admin", "kb_enum", "kb_loop", "kb_delete_invalid", "kb_resolve",
             "kb_has", "kb_delete", "kb_files", "kb_process"}
SfFilePcs == {"sf_has", "sf_query", "sf_has2", "sf_delete", "sf_process"}
SfAllPcs == {"sf_admin", "sf_enum", "sf_loop"} \cup SfFilePcs
FfFilePcs == {"ff_has", "ff_query", "ff_has2", "ff_delete", "ff_process"}
FfAllPcs == {"ff_admin", "ff_enum", "ff_users", "ff_get_folders", "ff_folders",
             "ff_refs", "ff_get_file"} \cup FfFilePcs

(* the calls a sweep makes outside of any try block *)
BoundaryOps == {"get_super_admin_user", "get_knowledge_bases", "get_files",
                "get_users", "get_folders_by_user_id"}
(* the calls a sweep makes for one knowledge base or one file *)
EntityOps == {"delete_knowledge_by_id", "get_files_by_ids", "has_collection",
              "query", "delete_collection", "process_file", "get_file_by_id"}

(***************************************************************************)
(* C1: if the catalog has no admin user, the run ends with a non-zero exit *)
(* code, and no sweep enumerates the catalog, deletes a collection or      *)
(* calls the indexing pipeline.  The code does not do this: every sweep    *)
(* returns (0, []) and main ends with exit code 0.                         *)
(***************************************************************************)
C1_NoAdminFailsRun ==
    ~adminUser =>
        /\ CallOps \subseteq {"get_super_admin_user"}
        /\ pc = "exit" => exitCode # 0

(***************************************************************************)
(* C2, as stated: no sweep ever raises, whatever external call fails.      *)
(***************************************************************************)
C2_NoSweepRaises == escaped = "none"

(***************************************************************************)
(* C2, amended: an exception of a per-entity call (delete_knowledge_by_id, *)
(* get_files_by_ids, has_collection, query, delete_collection,             *)
(* process_file, get_file_by_id) never leaves a sweep, and a run whose     *)
(* sweeps all returned ends with exit code 0; only an exception of a call  *)
(* made outside the try blocks (get_super_admin_user, get_knowledge_bases, *)
(* get_files, get_users, get_folders_by_user_id) leaves its sweep, and     *)
(* main then ends with exit code 1.                                        *)
(***************************************************************************)
C2_OnlyEnumerationsEscape ==
    /\ escaped \in {"none"} \cup BoundaryOps
    /\ escaped # "none" => pc = "exit" /\ exitCode = 1 /\ JustRaised(escaped)
    /\ \A op \in EntityOps : JustRaised(op) => escaped = "none" /\ pc # "exit"
    /\ (pc = "exit" /\ appState = "ready" /\ escaped = "none") => exitCode = 0

(* deleting the collection of a knowledge base raised and the sweep is at  *)
(* the head of its loop again                                              *)
C2_Witness ==
    /\ pc = "kb_loop"
    /\ JustRaised("delete_collection")
    /\ escaped = "none"

(* C3: what holds in every state *)
C3_Inv ==
    /\ (pc \in SfAllPcs /\ JustRaised("process_file")) =>
           /\ pc = "sf_loop"
           /\ failed_files # <<>>
           /\ Last(failed_files).file_id = file.id
           /\ Last(failed_files).error = ErrorText("process_file")
           /\ Len(files) = total_files - i
    /\ (pc = "exit" /\ file_failed # <<>> /\ escaped = "none") => exitCode = 0

(* C3: what holds of every step *)
C3_Step ==
    /\ (pc \in SfAllPcs /\ pc' \in SfAllPcs) => IsPrefix(failed_files, failed_files')
    /\ (pc = "sf_loop" /\ pc' = "ff_admin") =>
           /\ files = <<>>
           /\ i = total_files
           /\ file_failed' = failed_files
    /\ pc \in FfAllPcs \cup {"summary"} => file_failed' = file_failed

(***************************************************************************)
(* C3: when process_file raises for a file of the standalone sweep, the    *)
(* failure list gets a record with the id of the file, the files after it  *)
(* are still taken by the loop (the sweep returns only when none is left,  *)
(* and it returns the list with the record), and a run whose sweeps all    *)
(* returned ends with exit code 0.                                         *)
(***************************************************************************)
C3_PipelineFailureIsolated == []C3_Inv /\ [][C3_Step]_vars

(* the first of two standalone files failed, the second was reindexed, and *)
(* the run ended with exit code 0                                          *)
C3_Witness ==
    /\ pc = "exit"
    /\ exitCode = 0
    /\ FailedIds(file_failed) = {1}
    /\ file_success = 1

(* C4: what holds in every state *)
C4_Inv ==
    (pc \in SfAllPcs /\ \E n \in 1..Len(calls) : calls[n].out = "hit") =>
        /\ pc = "sf_loop"
        /\ CallOps = {"has_collection", "query"}
        /\ Len(calls) = 2

(* C4: what holds of every step *)
C4_Step ==
    (pc = "sf_query" /\ calls' # <<>> /\ Last(calls').out # "raise"
        /\ Query(VECTOR_DB, FileCollection(file.id), file.id) # {}) =>
        /\ pc' = "sf_loop"
        /\ Last(calls').out = "hit"
        /\ skipped_count' = skipped_count + 1
        /\ success_count' = success_count
        /\ failed_files' = failed_files
        /\ VECTOR_DB' = VECTOR_DB
        /\ procCount' = procCount

(***************************************************************************)
(* C4: for a file whose collection exists and whose query returns a        *)
(* document, the standalone sweep calls neither delete_collection nor      *)
(* process_file and adds exactly one to the skip count; the same holds     *)
(* when the sweep runs again.                                              *)
(***************************************************************************)
C4_IndexedFileSkipped == []C4_Inv /\ [][C4_Step]_vars

(* the second run of the sweep has skipped both files as already indexed *)
C4_Witness ==
    /\ run = 2
    /\ pc = "sf_loop"
    /\ JustEnded("query", "hit")
    /\ skipped_count = 2

(* the sweep has deleted the collection of the file at hand or submitted   *)
(* the file to the pipeline                                                *)
Redone == CallOps \cap {"delete_collection", "process_file"} # {}

(***************************************************************************)
(* C5, as stated: when the standalone sweep is interrupted and run again,  *)
(* no file whose reindex completed in the interrupted run is deleted or    *)
(* submitted again, and every file with content that the rerun does not    *)
(* find indexed is submitted to the pipeline.                              *)
(***************************************************************************)
C5_Resumable ==
    /\ \A f \in completed :
           /\ procCount["sf"][f] = 0
           /\ ~(pc \in SfAllPcs /\ file.id = f /\ Redone)
    /\ (pc = "sf_loop" /\ run > 1 /\ file.id # 0 /\ file.data = "content"
           /\ ~JustEnded("query", "hit")) => Last(calls).op = "process_file"

(* has_collection or query raised in the check for existing embeddings of *)
(* the file at hand                                                       *)
CheckRaised ==
    /\ calls # <<>>
    /\ \/ calls[1].out = "raise"
       \/ Len(calls) >= 2 /\ calls[2].op = "query" /\ calls[2].out = "raise"

(***************************************************************************)
(* C5, amended: when the standalone sweep is interrupted and run again, a  *)
(* file whose reindex completed in the interrupted run is deleted or       *)
(* submitted again only if has_collection or query raised while the rerun  *)
(* checked that file (the check swallows the exception and the file is     *)
(* rebuilt); and every file with content that the rerun does not find      *)
(* indexed is submitted to the pipeline.                                   *)
(***************************************************************************)
C5_ResumableUnlessCheckRaises ==
    /\ (pc \in SfAllPcs /\ file.id \in completed
           /\ (Redone \/ pc \in {"sf_has2", "sf_delete", "sf_process"})) => CheckRaised
    /\ (pc = "sf_loop" /\ run > 1 /\ file.id # 0 /\ file.data = "content"
           /\ ~JustEnded("query", "hit")) => Last(calls).op = "process_file"

(* the rerun has skipped file 1, which the interrupted run had completed,  *)
(* and has reindexed file 2                                                *)
C5_Witness ==
    /\ run = 2
    /\ completed = {1}
    /\ pc = "sf_loop"
    /\ file.id = 2
    /\ JustEnded("process_file", "ok")
    /\ procCount["sf"][1] = 0
    /\ skipped_count = 1

(***************************************************************************)
(* C6, as stated: a file referenced from several folders is submitted to   *)
(* the indexing pipeline at most once per run.                             *)
(***************************************************************************)
C6_OncePerRun ==
    \A f \in FileIds : procCount["sf"][f] + procCount["ff"][f] <= 1

(***************************************************************************)
(* C6, amended: a file referenced from several folders is submitted to the *)
(* indexing pipeline at most once by the folder sweep, whatever the number *)
(* of references and whether or not the first attempt failed (the          *)
(* standalone sweep of the same run may have submitted it once as well).   *)
(***************************************************************************)
C6_OncePerFolderSweep ==
    \A f \in FileIds : procCount["ff"][f] <= 1 /\ procCount["sf"][f] <= 1

(* a second reference to file 1 has just been read and passed over, after  *)
(* the folder sweep submitted file 1 once                                  *)
C6_Witness ==
    /\ pc = "ff_refs"
    /\ calls = <<>>
    /\ file_ref = [type |-> "file", id |-> 1]
    /\ procCount["ff"][1] = 1

(* C7: what holds in every state *)
C7_Inv ==
    /\ pc \in SfFilePcs \cup FfFilePcs => file.data = "content"
    /\ (pc = "sf_loop" /\ file.id # 0 /\ file.data # "content") => calls = <<>>
    /\ (pc = "ff_refs" /\ JustEnded("get_file_by_id", "ok")) =>
           /\ file.data # "content"
           /\ Len(calls) = 1

(* C7: what holds of every step *)
C7_Step ==
    /\ (pc = "sf_loop" /\ pc' \in SfAllPcs /\ file'.id # file.id
           /\ file'.data # "content") =>
           /\ skipped_count' = skipped_count + 1
           /\ success_count' = success_count
           /\ failed_files' = failed_files
           /\ VECTOR_DB' = VECTOR_DB
           /\ procCount' = procCount
    /\ (pc = "ff_get_file" /\ file'.data # "content") =>
           /\ success_count' = success_count
           /\ VECTOR_DB' = VECTOR_DB
           /\ procCount' = procCount

(***************************************************************************)
(* C7: for a file whose data is absent or has no content, the standalone   *)
(* sweep and the folder sweep call neither process_file nor                *)
(* delete_collection (nor any other vector store call); the standalone     *)
(* sweep adds one to its skip count and leaves its success count alone.    *)
(***************************************************************************)
C7_ContentlessSkipped == []C7_Inv /\ [][C7_Step]_vars

(* the standalone sweep has passed over file 1, a record without content *)
C7_Witness ==
    /\ pc = "sf_loop"
    /\ file = [id |-> 1, data |-> "nocontent"]
    /\ calls = <<>>
    /\ skipped_count = 1
    /\ success_count = 0

(* the data of a knowledge base is absent, no dict, or an empty dict *)
InvalidData(data) == data.kind # "dict" \/ ~data.keys

(***************************************************************************)
(* C8, as stated: every knowledge base whose data is absent or malformed   *)
(* is deleted from the catalog, recorded in the deleted list, and never    *)
(* counted as a success.                                                   *)
(***************************************************************************)
C8_InvalidDeleted ==
    (pc = "kb_loop" /\ knowledge_base.id # 0 /\ InvalidData(knowledge_base.data)) =>
        /\ knowledge_base.id \notin Knowledges
        /\ knowledge_base.id \in Range(deleted_knowledge_bases)

(* C8: what holds in every state *)
C8_Inv ==
    (pc \in KbAllPcs /\ knowledge_base.id # 0 /\ InvalidData(knowledge_base.data)) =>
        /\ pc \in {"kb_delete_invalid", "kb_loop"}
        /\ pc = "kb_loop" =>
              /\ Len(calls) = 1
              /\ calls[1].op = "delete_knowledge_by_id"
              /\ calls[1].on = KBCollection(knowledge_base.id)
              /\ calls[1].out = "ok" =>
                    /\ knowledge_base.id \notin Knowledges
                    /\ deleted_knowledge_bases # <<>>
                    /\ Last(deleted_knowledge_bases) = knowledge_base.id
              /\ calls[1].out = "raise" =>
                    /\ knowledge_base.id \in Knowledges
                    /\ knowledge_base.id \notin Range(deleted_knowledge_bases)

(* C8: what holds of every step *)
C8_Step ==
    /\ pc = "kb_delete_invalid" =>
           /\ success_count' = success_count
           /\ VECTOR_DB' = VECTOR_DB
    /\ (pc \in KbAllPcs /\ pc' \in KbAllPcs /\ pc # "kb_enum") =>
           IsPrefix(deleted_knowledge_bases, deleted_knowledge_bases')
    /\ (pc = "kb_loop" /\ pc' = "sf_admin") =>
           /\ kb_deleted' = deleted_knowledge_bases
           /\ kb_success' = success_count

(***************************************************************************)
(* C8, amended: for every knowledge base whose data is absent or malformed *)
(* the sweep calls delete_knowledge_by_id and nothing else; when the call  *)
(* returns, the knowledge base is gone from the catalog and recorded in    *)
(* the deleted list; when the call raises, the knowledge base stays in the *)
(* catalog and is not recorded; in both cases it is not counted as a       *)
(* success, and the sweep returns the deleted list.                        *)
(***************************************************************************)
C8_InvalidDeletedIfDeleteReturns == []C8_Inv /\ [][C8_Step]_vars

(* knowledge base 1 had no data, was deleted and recorded *)
C8_Witness ==
    /\ pc = "kb_loop"
    /\ knowledge_base.id = 1
    /\ knowledge_base.data.kind = "none"
    /\ 1 \notin Knowledges
    /\ deleted_knowledge_bases = <<1>>
    /\ success_count = 0

(***************************************************************************)
(* C9, as stated: in all three sweeps every error of a per-entity call is  *)
(* caught, a failure record with the id of the entity and the error text   *)
(* is recorded, and the sweep goes on with the next entity.                *)
(***************************************************************************)
C9_EveryErrorRecorded ==
    \A op \in EntityOps :
        JustRaised(op) =>
            /\ escaped = "none"
            /\ failed_files # <<>>
            /\ Last(failed_files).error = ErrorText(op)

(* the call made by this step is one of `ops` and raised *)
Raises(ops) ==
    /\ calls' # calls
    /\ calls' # <<>>
    /\ Last(calls').op \in ops
    /\ Last(calls').out = "raise"

(* C9: what holds in every state *)
C9_Inv ==
    \A op \in EntityOps : JustRaised(op) => escaped = "none" /\ pc # "exit"

(* C9: what holds of every step *)
C9_Step ==
    /\ (pc = "kb_process" /\ Raises(EntityOps)) =>
           /\ pc' = "kb_files"
           /\ failed_files' =
                  Append(failed_files, [file_id |-> file.id,
                                        error |-> ErrorText("process_file")])
    /\ (pc \in KbAllPcs \ {"kb_process"} /\ Raises(EntityOps)) =>
           /\ pc' = "kb_loop"
           /\ failed_files' = failed_files
           /\ success_count' = success_count
    /\ (pc = "sf_process" /\ Raises(EntityOps)) =>
           /\ pc' = "sf_loop"
           /\ failed_files' =
                  Append(failed_files, [file_id |-> file.id,
                                        filename |-> Filename(file.id),
                                        error |-> ErrorText("process_file")])
    /\ (pc \in SfAllPcs \ {"sf_process"} /\ Raises(EntityOps)) =>
           /\ pc' = IF pc \in {"sf_has", "sf_query"} THEN "sf_has2" ELSE "sf_process"
           /\ file' = file
           /\ failed_files' = failed_files
    /\ (pc \in {"ff_get_file", "ff_process"} /\ Raises(EntityOps)) =>
           /\ pc' = "ff_refs"
           /\ failed_files' =
                  Append(failed_files, [file_id |-> file_id,
                                        error |-> ErrorText(Last(calls').op)])
    /\ (pc \in FfAllPcs \ {"ff_get_file", "ff_process"} /\ Raises(EntityOps)) =>
           /\ pc' = IF pc \in {"ff_has", "ff_query"} THEN "ff_has2" ELSE "ff_process"
           /\ file' = file
           /\ failed_files' = failed_files
    /\ (pc \in SfAllPcs /\ pc' \in SfAllPcs) => IsPrefix(failed_files, failed_files')
    /\ (pc \in FfAllPcs /\ pc' \in FfAllPcs /\ pc # "ff_enum") =>
           IsPrefix(failed_files, failed_files')
    /\ (pc = "kb_loop" /\ pc' = "sf_admin") =>
           /\ kb_success' = success_count
           /\ kb_deleted' = deleted_knowledge_bases
    /\ (pc = "sf_loop" /\ pc' = "ff_admin") => file_failed' = failed_files
    /\ (pc = "ff_users" /\ pc' = "summary") => folder_file_failed' = failed_files

(***************************************************************************)
(* C9, amended: in all three sweeps every error of a per-entity call is    *)
(* caught and the sweep goes on.  A failure record with the id of the file *)
(* and the error text is appended to the list the sweep returns only when  *)
(* process_file raises in the standalone or the folder sweep or            *)
(* get_file_by_id raises in the folder sweep; the sweep then goes on with  *)
(* the next file.  When process_file raises for a member of a knowledge    *)
(* base, the record goes to the list of that knowledge base, which is not  *)
(* returned, and the next member is taken.  An error of                    *)
(* delete_knowledge_by_id, get_files_by_ids, or of has_collection or       *)
(* delete_collection on the collection of a knowledge base leaves no       *)
(* record and the next knowledge base is taken.  An error of               *)
(* has_collection, query or delete_collection on the collection of a file  *)
(* leaves no record and the same file goes on to the next step.            *)
(***************************************************************************)
C9_ErrorsCaughtSomeRecorded == []C9_Inv /\ [][C9_Step]_vars

(* process_file raised for file 1 of the standalone sweep and its record   *)
(* is the last of the failure list                                         *)
C9_Witness ==
    /\ pc = "sf_loop"
    /\ JustRaised("process_file")
    /\ Last(failed_files) = [file_id |-> 1, filename |-> Filename(1),
                             error |-> ErrorText("process_file")]

(* C10: what holds in every state *)
C10_Inv ==
    pc \in KbAllPcs \ {"kb_admin", "kb_enum"} =>
        Len(knowledge_bases) = total_kbs - kb_idx

(* C10: what holds of every step *)
C10_Step ==
    /\ pc = "kb_process" =>
           /\ pc' = "kb_files"
           /\ escaped' = "none"
           /\ files' = files
           /\ knowledge_bases' = knowledge_bases
    /\ (pc = "kb_files" /\ pc' = "kb_loop") => files = <<>>
    /\ (pc = "kb_loop" /\ pc' = "sf_admin") =>
           /\ knowledge_bases = <<>>
           /\ kb_idx = total_kbs

(***************************************************************************)
(* C10: when process_file raises for a member of a knowledge base, the     *)
(* member loop goes on: no member is dropped from the files still to do,   *)
(* the knowledge base is left only when no member is left, and the sweep   *)
(* returns only when no knowledge base is left.                            *)
(***************************************************************************)
C10_MemberFailureIsolated == []C10_Inv /\ [][C10_Step]_vars

(* the second member of a knowledge base is about to be submitted after    *)
(* the first one failed                                                    *)
C10_Witness ==
    /\ pc = "kb_process"
    /\ FailedIds(failed_files) = {1}
    /\ file.id = 2

(* the documents of a collection; none when the collection does not exist *)
Docs(db, name) == db[name] \ NoCollection

(* the process_file calls made for the knowledge base at hand that ended   *)
(* with `out`                                                              *)
MemberCalls(out) ==
    {n \in 1..Len(calls) : calls[n].op = "process_file" /\ calls[n].out = out}

(* C11: what holds in every state *)
C11_Inv ==
    /\ pc \in {"kb_files", "kb_process"} =>
           /\ Len(failed_files) = Cardinality(MemberCalls("raise"))
           /\ \A f \in {calls[n].file : n \in MemberCalls("ok")} :
                  f \in Docs(VECTOR_DB, KBCollection(knowledge_base.id))
    /\ pc \in KbAllPcs =>
           \A n, m \in 1..Len(calls) :
               (n < m /\ calls[n].op = "process_file") =>
                   calls[m].op # "delete_collection"

(* C11: what holds of every step *)
C11_Step ==
    /\ (pc \in KbAllPcs /\ pc' \in KbAllPcs /\ pc # "kb_enum") =>
           /\ success_count' \in {success_count, success_count + 1}
           /\ success_count' = success_count + 1 =>
                  /\ pc = "kb_files"
                  /\ files = <<>>
                  /\ failed_files = <<>>
                  /\ MemberCalls("raise") = {}
    /\ (pc = "kb_files" /\ files # <<>>) =>
           /\ pc' = "kb_process"
           /\ file'.id = Head(files)
           /\ files' = Tail(files)
    /\ pc = "kb_process" =>
           /\ Len(calls') = Len(calls) + 1
           /\ Last(calls').op = "process_file"
           /\ Last(calls').file = file.id
           /\ Last(calls').on = KBCollection(knowledge_base.id)
    /\ pc \in {"kb_files", "kb_process"} =>
           Docs(VECTOR_DB, KBCollection(knowledge_base.id))
               \subseteq Docs(VECTOR_DB', KBCollection(knowledge_base.id))

(***************************************************************************)
(* C11: a knowledge base is counted as a success only when every file its  *)
(* member list resolved to was submitted to process_file and none raised;  *)
(* when a member fails, the documents of the members indexed before stay   *)
(* in the collection of the knowledge base: no delete_collection follows a *)
(* process_file call.                                                      *)
(***************************************************************************)
C11_SuccessOnlyIfAllMembers == []C11_Inv /\ [][C11_Step]_vars

(* the first member of knowledge base 1 was indexed, the second failed:    *)
(* the knowledge base is not counted and the documents of the first stay   *)
C11_Witness ==
    /\ pc = "kb_loop"
    /\ knowledge_base.id = 1
    /\ Len(calls) >= 2
    /\ Last(calls) = Call("process_file", 2, KBCollection(1), "raise")
    /\ calls[Len(calls) - 1] = Call("process_file", 1, KBCollection(1), "ok")
    /\ success_count = 0
    /\ 1 \in Docs(VECTOR_DB, KBCollection(1))

(* the phase of main a position belongs to *)
Phase(p) ==
    CASE p = "start" -> 0
      [] p \in KbAllPcs -> 1
      [] p \in SfAllPcs -> 2
      [] p \in FfAllPcs -> 3
      [] p = "summary" -> 4
      [] p = "exit" -> 5

(* the positions at which a sweep starts, and those from which it returns *)
SweepEntries == {"kb_admin", "sf_admin", "ff_admin"}
SweepReturns == {"kb_admin", "kb_loop", "sf_admin", "sf_loop", "ff_admin", "ff_users"}

C12_Step ==
    /\ Phase(pc') \in {Phase(pc), Phase(pc) + 1, 5}
    /\ pc = "exit" => pc' = "exit"
    /\ (pc' \in SweepEntries /\ pc' # pc) => Phase(pc) = Phase(pc') - 1
    /\ (Phase(pc) \in 1..3 /\ Phase(pc') = Phase(pc) + 1) =>
           /\ pc \in SweepReturns
           /\ pc' \in SweepEntries \cup {"summary"}
    /\ (pc = "start" /\ pc' # "exit") => pc' = "kb_admin"
    /\ (pc = "summary" /\ pc' # pc) => pc' = "exit" /\ exitCode' = 0

(***************************************************************************)
(* C12: a run goes through its phases in the order precondition check,     *)
(* knowledge base sweep, standalone file sweep, folder file sweep, summary,*)
(* exit: a sweep is entered only at its first statement and only from the  *)
(* return of the phase before it, so each sweep runs at most once, and no  *)
(* step leads back to an earlier phase (a run may only go to exit early).  *)
(***************************************************************************)
C12_PhasesInOrder == [][C12_Step]_vars

(* the folder sweep is submitting a file after the knowledge base sweep    *)
(* and the standalone sweep returned, each with one success                *)
C12_Witness ==
    /\ pc = "ff_process"
    /\ kb_success = 1
    /\ file_success = 1

(* C13: what holds in every state *)
C13_Inv ==
    /\ appState # "ready" =>
           /\ pc \in {"start", "exit"}
           /\ calls = <<>>
           /\ procCount = NoProc
    /\ escaped # "none" => pc = "exit"
    /\ (pc = "exit" /\ (appState # "ready" \/ escaped # "none")) =>
           /\ exitCode = 1
           /\ shown = <<>>
           /\ more = 0

(* C13: what holds of every step *)
C13_Step ==
    /\ pc = "exit" => vars' = vars
    /\ (pc # "exit" /\ pc' = "exit" /\ (appState # "ready" \/ escaped' # "none")) =>
           /\ pc # "summary"
           /\ exitCode' = 1
           /\ <<kb_success, kb_deleted, file_success, file_failed,
                folder_file_success, folder_file_failed, shown, more>>' =
              <<kb_success, kb_deleted, file_success, file_failed,
                folder_file_success, folder_file_failed, shown, more>>
           /\ VECTOR_DB' = VECTOR_DB
           /\ procCount' = procCount
    /\ (pc = "start" /\ appState # "ready") => pc' \in {"start", "exit"}

(***************************************************************************)
(* C13: when app.state has no EMBEDDING_FUNCTION (or the import of the app *)
(* fails), or an exception leaves a sweep function, the run ends with exit *)
(* code 1; the step that ends it is not the summary, it sets no result of  *)
(* a sweep and makes no call, and no step follows it: no later sweep       *)
(* starts and the summary is not printed.                                  *)
(***************************************************************************)
C13_FatalExitsOne == []C13_Inv /\ [][C13_Step]_vars

(* Files.get_files raised after the knowledge base sweep had reindexed a   *)
(* knowledge base: exit code 1, no result of the file sweeps               *)
C13_Witness ==
    /\ pc = "exit"
    /\ escaped = "get_files"
    /\ exitCode = 1
    /\ kb_success = 1
    /\ file_success = 0
    /\ folder_file_success = 0

(* the calls of the driver that read the catalog *)
CatalogReads == {"get_super_admin_user", "get_knowledge_bases", "get_files_by_ids",
                 "get_files", "get_users", "get_folders_by_user_id",
                 "get_file_by_id"}
(* the calls of the driver that go to the vector store or the pipeline *)
IndexOps == {"has_collection", "query", "delete_collection", "process_file"}

(***************************************************************************)
(* C14, as stated: the only call of the driver that changes the catalog is *)
(* delete_knowledge_by_id, and it is made only for a knowledge base whose  *)
(* data is absent or not a dict.                                           *)
(***************************************************************************)
C14_DeletesOnlyAbsentOrNoDict ==
    /\ CallOps \subseteq CatalogReads \cup IndexOps \cup {"delete_knowledge_by_id"}
    /\ (pc = "kb_loop" /\ knowledge_base.id # 0
           /\ "delete_knowledge_by_id" \in CallOps) =>
           knowledge_base.data.kind \in {"none", "notdict"}

(* C14: what holds in every state *)
C14_Inv ==
    /\ CallOps \subseteq CatalogReads \cup IndexOps \cup {"delete_knowledge_by_id"}
    /\ (pc \in KbAllPcs /\ knowledge_base.id # 0
           /\ "delete_knowledge_by_id" \in CallOps) =>
           /\ InvalidData(knowledge_base.data)
           /\ calls = <<calls[1]>>
           /\ calls[1].on = KBCollection(knowledge_base.id)
    /\ (pc \in KbAllPcs /\ knowledge_base.id # 0
           /\ ~InvalidData(knowledge_base.data)) =>
           knowledge_base.id \in Knowledges

(* C14: what holds of every step *)
C14_Step ==
    /\ Knowledges' \subseteq Knowledges
    /\ Knowledges' # Knowledges =>
           /\ pc = "kb_delete_invalid"
           /\ InvalidData(knowledge_base.data)
           /\ Knowledges' = Knowledges \ {knowledge_base.id}
    /\ pc = "kb_delete_invalid" => InvalidData(knowledge_base.data)

(***************************************************************************)
(* C14, amended: the only call of the driver that changes the catalog is   *)
(* delete_knowledge_by_id, and it is made only for a knowledge base whose  *)
(* data is None, is no dict, or is an empty dict (`not knowledge_base.data`*)
(* is true of an empty dict); a knowledge base with a non-empty dict as    *)
(* data is never deleted, and the driver makes no call that changes a      *)
(* file, a folder or a user.                                               *)
(***************************************************************************)
C14_DeletesOnlyInvalid == []C14_Inv /\ [][C14_Step]_vars

(* the sweep returned after deleting knowledge base 1, which had no valid  *)
(* data, and reindexing knowledge base 2, which stays in the catalog       *)
C14_Witness ==
    /\ pc = "sf_admin"
    /\ kb_deleted = <<1>>
    /\ kb_success = 1
    /\ Knowledges = {2}

(* has_collection or delete_collection raised in the cleanup of the old    *)
(* collection of the file at hand: the call that raised is followed by     *)
(* process_file or is the last call so far, and is not part of the check   *)
(* for existing embeddings                                                 *)
CleanupRaised ==
    \E n \in 1..Len(calls) :
        /\ calls[n].out = "raise"
        /\ \/ calls[n].op = "delete_collection"
           \/ /\ calls[n].op = "has_collection"
              /\ n > 1
              /\ calls[n - 1].op \in {"has_collection", "query"}

(* C15: what holds in every state *)
C15_Inv ==
    /\ (pc \in SfFilePcs \cup {"sf_loop"} /\ CleanupRaised
           /\ calls[1].on = FileCollection(file.id)) =>
           /\ pc \in {"sf_process", "sf_loop"}
           /\ pc = "sf_loop" =>
                  /\ Last(calls) \in {Call("process_file", file.id, NoName, out) :
                                         out \in {"ok", "raise"}}
                  /\ JustEnded("process_file", "ok") =>
                         file.id \notin FailedIds(failed_files)
                  /\ JustEnded("process_file", "raise") =>
                         Last(failed_files).error = ErrorText("process_file")
    /\ (pc \in FfFilePcs \cup {"ff_refs"} /\ CleanupRaised
           /\ calls[1].op = "get_file_by_id") =>
           /\ pc \in {"ff_process", "ff_refs"}
           /\ pc = "ff_refs" =>
                  /\ Last(calls) \in {Call("process_file", file.id, NoName, out) :
                                         out \in {"ok", "raise"}}
                  /\ JustEnded("process_file", "ok") =>
                         file.id \notin FailedIds(failed_files)
                  /\ JustEnded("process_file", "raise") =>
                         Last(failed_files).error = ErrorText("process_file")

(* C15: what holds of every step *)
C15_Step ==
    /\ (pc \in {"sf_has2", "sf_delete"} /\ Raises({"has_collection", "delete_collection"})) =>
           /\ pc' = "sf_process"
           /\ file' = file
           /\ failed_files' = failed_files
           /\ escaped' = "none"
    /\ (pc \in {"ff_has2", "ff_delete"} /\ Raises({"has_collection", "delete_collection"})) =>
           /\ pc' = "ff_process"
           /\ file' = file
           /\ failed_files' = failed_files
           /\ escaped' = "none"
    /\ (pc \in {"sf_process", "ff_process"} /\ pc' # "start") =>
           /\ Len(calls') = Len(calls) + 1
           /\ Last(calls').op = "process_file"
           /\ Last(calls').file = file.id
           /\ Last(calls').on = NoName
           /\ Last(calls').out = "ok" =>
                  /\ success_count' = success_count + 1
                  /\ failed_files' = failed_files

(***************************************************************************)
(* C15: in the standalone sweep and in the folder sweep, when              *)
(* has_collection or delete_collection raises in the cleanup of the old    *)
(* collection of a file, process_file is still called for that file with   *)
(* collection_name=None, and no failure record is made for the cleanup     *)
(* error: the file is counted as a success when process_file returns, and  *)
(* a record it gets carries the error of process_file.                     *)
(***************************************************************************)
C15_CleanupErrorNotFatal == []C15_Inv /\ [][C15_Step]_vars

(* deleting the old collection of file 1 raised; process_file was called   *)
(* all the same and the file is counted as a success                       *)
C15_Witness ==
    /\ pc = "sf_loop"
    /\ file.id = 1
    /\ Len(calls) >= 2
    /\ calls[Len(calls) - 1] = Call("delete_collection", 1, FileCollection(1), "raise")
    /\ Last(calls) = Call("process_file", 1, NoName, "ok")
    /\ success_count = 1
    /\ failed_files = <<>>

(* C16: what holds in every state of the knowledge base sweep *)
C16_Inv ==
    (pc \in KbAllPcs
        /\ \E n \in 1..Len(calls) :
               /\ calls[n].op \in {"has_collection", "delete_collection"}
               /\ calls[n].out = "raise") =>
        /\ pc = "kb_loop"
        /\ Last(calls).out = "raise"
        /\ Last(calls).on = KBCollection(knowledge_base.id)
        /\ "process_file" \notin CallOps

(* C16: what holds of every step *)
C16_Step ==
    /\ (pc \in {"kb_has", "kb_delete"}
           /\ Raises({"has_collection", "delete_collection"})) =>
           /\ pc' = "kb_loop"
           /\ success_count' = success_count
           /\ knowledge_bases' = knowledge_bases
           /\ VECTOR_DB' = VECTOR_DB
           /\ escaped' = "none"
    /\ (pc = "kb_loop" /\ knowledge_bases # <<>>) =>
           /\ knowledge_base'.id = Head(knowledge_bases)
           /\ pc' \in {"kb_delete_invalid", "kb_resolve"}
           /\ success_count' = success_count
    /\ (pc = "kb_loop" /\ pc' \notin KbAllPcs) =>
           /\ knowledge_bases = <<>>
           /\ kb_success' = success_count

(***************************************************************************)
(* C16: in the knowledge base sweep, when has_collection or                *)
(* delete_collection raises for the collection of a knowledge base, the    *)
(* iteration of that knowledge base ends: process_file is called for none  *)
(* of its members, the success count stays as it was, and the loop takes   *)
(* the next knowledge base (the sweep returns only when none is left).     *)
(***************************************************************************)
C16_KbCleanupErrorAborts == []C16_Inv /\ [][C16_Step]_vars

(* has_collection raised for knowledge base 1, whose members were          *)
(* resolved; none was processed and knowledge base 2 is still to come      *)
C16_Witness ==
    /\ pc = "kb_loop"
    /\ knowledge_base.id = 1
    /\ JustRaised("has_collection")
    /\ files # <<>>
    /\ knowledge_bases = <<2>>
    /\ success_count = 0

(***************************************************************************)
(* C17: the summary prints a failure line for each of the first 10         *)
(* records of file_failed + folder_file_failed and for no other: for n     *)
(* records, min(n, 10) lines, the k-th line made of the k-th record (its   *)
(* filename or 'Unknown', its file id, its error); and the line            *)
(* "... and m more" is printed exactly when n > 10, with m = n - 10.       *)
(***************************************************************************)
C17_SummaryCapped ==
    pc = "exit" =>
        LET all_failed == file_failed \o folder_file_failed
            n == Len(all_failed)
        IN  /\ Len(shown) = IF n < 10 THEN n ELSE 10
            /\ \A k \in 1..Len(shown) :
                   /\ shown[k].file_id = all_failed[k].file_id
                   /\ shown[k].error = all_failed[k].error
                   /\ shown[k].filename =
                          IF "filename" \in DOMAIN all_failed[k]
                          THEN all_failed[k].filename ELSE Unknown
            /\ more > 0 <=> n > 10
            /\ n > 10 => more = n - 10

(* twelve failures, seven of the standalone sweep and five of the folder   *)
(* sweep: ten lines and "... and 2 more"                                   *)
C17_Witness ==
    /\ pc = "exit"
    /\ Len(file_failed) = 7
    /\ Len(folder_file_failed) = 5
    /\ Len(shown) = 10
    /\ shown[8].filename = Unknown
    /\ more = 2

(* the files of the standalone sweep that have an outcome so far *)
Accounted == skipped_count + success_count + Len(failed_files)

(* C19: what holds in every state of the standalone sweep *)
C19_Inv ==
    /\ pc \in SfFilePcs \cup {"sf_loop"} => i + Len(files) = total_files
    /\ pc = "sf_loop" => Accounted = i
    /\ pc \in SfFilePcs => Accounted = i - 1

(* C19: what holds of every step *)
C19_Step ==
    /\ (pc \in SfFilePcs \cup {"sf_loop"} /\ pc' \in SfFilePcs \cup {"sf_loop"}) =>
           /\ skipped_count' >= skipped_count
           /\ success_count' >= success_count
           /\ Len(failed_files') >= Len(failed_files)
           /\ Accounted' \in {Accounted, Accounted + 1}
    /\ (pc = "sf_loop" /\ pc' = "ff_admin") =>
           /\ Accounted = total_files
           /\ file_success' = success_count
           /\ Len(file_failed') = Len(failed_files)

(***************************************************************************)
(* C19: in the standalone sweep every file of the list get_files returned  *)
(* gets exactly one outcome, skipped, succeeded or failed: after each      *)
(* file, skipped_count + success_count + len(failed_files) is the number   *)
(* of files taken so far, and when the sweep returns it is total_files,    *)
(* whatever has_collection, query, delete_collection and process_file did. *)
(***************************************************************************)
C19_EveryFileAccounted == []C19_Inv /\ [][C19_Step]_vars

(* both files have been taken: one was skipped, process_file raised for    *)
(* the other                                                               *)
C19_Witness ==
    /\ pc = "sf_loop"
    /\ files = <<>>
    /\ i = 2
    /\ total_files = 2
    /\ skipped_count = 1
    /\ success_count = 0
    /\ Len(failed_files) = 1

KbEntityPcs == {"kb_resolve", "kb_has", "kb_delete", "kb_files", "kb_process"}
FfEntityPcs == {"ff_get_file"} \cup FfFilePcs

(* a list without its first element, if it has one *)
Rest(s) == IF s = <<>> THEN s ELSE Tail(s)

(* the collections a step has changed *)
Touched == {name \in CollNames : VECTOR_DB'[name] # VECTOR_DB[name]}

(* C18: what holds in every state *)
C18_Inv ==
    (* once process_file has been called for an entity, no call looks for   *)
    (* or deletes its collection                                            *)
    /\ \A m, n \in 1..Len(calls) :
           (m < n /\ calls[m].op = "process_file") =>
               calls[n].op \notin {"has_collection", "query", "delete_collection"}
    (* the calls made since the loop took the entity are calls for it *)
    /\ pc \in KbEntityPcs =>
           /\ \A n \in 1..Len(calls) : calls[n].on = KBCollection(knowledge_base.id)
           /\ knowledge_base.id \notin Range(knowledge_bases)
    /\ pc \in SfFilePcs =>
           /\ \A n \in 1..Len(calls) :
                  /\ calls[n].file = file.id
                  /\ calls[n].on \in {FileCollection(file.id), NoName}
           /\ file.id \notin Range(files)
    /\ pc \in FfEntityPcs =>
           /\ \A n \in 1..Len(calls) :
                  /\ calls[n].file = file_id
                  /\ calls[n].on \in {FileCollection(file_id), NoName}
           /\ file_id \in processed_file_ids
    /\ pc \in FfFilePcs => file.id = file_id
    (* no entity is in a list twice, and no file is processed twice in a    *)
    (* sweep                                                                *)
    /\ NoDup(knowledge_bases)
    /\ NoDup(files) \/ pc \in KbAllPcs
    /\ \A s \in Sweeps : \A f \in FileIds : procCount[s][f] <= 1

(* C18: what holds of every step *)
C18_Step ==
    (* an entity that the loop has left does not come back *)
    /\ (pc \in KbAllPcs /\ pc' \in KbAllPcs /\ pc # "kb_enum") =>
           knowledge_bases' \in {knowledge_bases, Rest(knowledge_bases)}
    /\ (pc = "kb_loop" /\ pc' \in KbAllPcs \ {"kb_loop"}) =>
           /\ knowledge_base'.id = Head(knowledge_bases)
           /\ knowledge_bases' = Tail(knowledge_bases)
    /\ (pc \in SfAllPcs /\ pc' \in SfAllPcs /\ pc # "sf_enum") =>
           files' \in {files, Rest(files)}
    /\ (pc = "sf_loop" /\ pc' \in SfFilePcs) =>
           /\ file'.id = Head(files)
           /\ files' = Tail(files)
    /\ (pc \in FfAllPcs /\ pc' \in FfAllPcs) =>
           processed_file_ids \subseteq processed_file_ids'
    /\ (pc = "ff_refs" /\ pc' = "ff_get_file") =>
           /\ file_id' \notin processed_file_ids
           /\ processed_file_ids' = processed_file_ids \cup {file_id'}
    (* a step changes the collection of the entity at hand and no other;    *)
    (* a collection is deleted before process_file is called                *)
    /\ pc \in KbAllPcs => Touched \subseteq {KBCollection(knowledge_base.id)}
    /\ pc \in SfAllPcs => Touched \subseteq {FileCollection(file.id)}
    /\ pc \in FfAllPcs => Touched \subseteq {FileCollection(file_id)}
    /\ (\E name \in Touched : VECTOR_DB'[name] = NoCollection) =>
           /\ pc \in {"kb_delete", "sf_delete", "ff_delete"}
           /\ "process_file" \notin CallOps

(***************************************************************************)
(* C18: each sweep works on one entity at a time and deletes before it     *)
(* reindexes: among the calls made for an entity, delete_collection comes  *)
(* before every process_file, and no has_collection, query or              *)
(* delete_collection comes after a process_file; every call and every      *)
(* change of the vector store between the moment the loop takes an entity  *)
(* and the moment it takes the next one is for the entity at hand; and an  *)
(* entity the loop has left is not taken again in the sweep, so its        *)
(* collection is not deleted after it was reindexed.                       *)
(***************************************************************************)
C18_OneEntityAtATime == []C18_Inv /\ [][C18_Step]_vars

(* the stale collection of knowledge base 1 was deleted, then its two      *)
(* members were reindexed, and knowledge base 2 is still to come           *)
C18_Witness ==
    /\ pc = "kb_loop"
    /\ knowledge_base.id = 1
    /\ knowledge_bases = <<2>>
    /\ Len(calls) = 5
    /\ calls[3] = Call("delete_collection", 0, KBCollection(1), "ok")
    /\ calls[4].op = "process_file" /\ calls[4].out = "ok"
    /\ calls[5].op = "process_file" /\ calls[5].out = "ok"
    /\ VECTOR_DB[KBCollection(1)] = {1, 2}

(* the iteration of a knowledge base with valid data has ended and         *)
(* get_files_by_ids had returned no file for it                            *)
NoMembers ==
    /\ pc = "kb_loop"
    /\ calls # <<>>
    /\ calls[1] = Call("get_files_by_ids", 0, KBCollection(knowledge_base.id), "ok")
    /\ files = <<>>
    /\ "process_file" \notin CallOps

(***************************************************************************)
(* C20, as stated: a knowledge base with valid data for which              *)
(* get_files_by_ids returns no file has no collection when its iteration   *)
(* has ended, and is counted in success_count.                             *)
(***************************************************************************)
C20_EmptyKbCountedAndCleared ==
    NoMembers =>
        /\ VECTOR_DB[KBCollection(knowledge_base.id)] = NoCollection
        /\ kb_idx = 1 => success_count = 1

(* C20, amended: what holds in every state *)
C20_Inv ==
    /\ NoMembers =>
           /\ Last(calls).out # "raise" =>
                  /\ VECTOR_DB[KBCollection(knowledge_base.id)] = NoCollection
                  /\ kb_idx = 1 => success_count = 1
           /\ Last(calls).out = "raise" =>
                  /\ Last(calls).op \in {"has_collection", "delete_collection"}
                  /\ kb_idx = 1 => success_count = 0
           /\ JustRaised("delete_collection") =>
                  VECTOR_DB[KBCollection(knowledge_base.id)] # NoCollection
    /\ (pc \in {"kb_has", "kb_delete", "kb_files"} /\ files = <<>>
           /\ "process_file" \notin CallOps) => failed_files = <<>>

(* C20, amended: what holds of every step *)
C20_Step ==
    /\ (pc \in {"kb_has", "kb_delete"} /\ files = <<>>) =>
           /\ pc' \in {"kb_delete", "kb_files", "kb_loop"}
           /\ success_count' = success_count
           /\ Raises({"has_collection", "delete_collection"}) =>
                  /\ pc' = "kb_loop"
                  /\ VECTOR_DB' = VECTOR_DB
           /\ (pc = "kb_delete" /\ ~Raises({"delete_collection"})) =>
                  VECTOR_DB'[KBCollection(knowledge_base.id)] = NoCollection
    /\ (pc = "kb_files" /\ files = <<>> /\ "process_file" \notin CallOps) =>
           /\ pc' = "kb_loop"
           /\ success_count' = success_count + 1
           /\ VECTOR_DB' = VECTOR_DB
    (* what the sweep does for the knowledge bases after it leaves the      *)
    (* collection as it is                                                  *)
    /\ pc \in KbAllPcs =>
           \A k \in KBIds \ {knowledge_base.id} :
               VECTOR_DB'[KBCollection(k)] = VECTOR_DB[KBCollection(k)]
    /\ pc = "kb_loop" => VECTOR_DB' = VECTOR_DB

(***************************************************************************)
(* C20, amended: for a knowledge base with valid data for which            *)
(* get_files_by_ids returns no file, process_file is not called; if        *)
(* has_collection and delete_collection return, its collection is deleted  *)
(* when there is one, it is counted in success_count, and it has no        *)
(* collection for the rest of the sweep; if has_collection or              *)
(* delete_collection raises, it is not counted and the store is left as    *)
(* it was, so a collection it had is still there.                          *)
(***************************************************************************)
C20_EmptyKbCountedUnlessCleanupRaises == []C20_Inv /\ [][C20_Step]_vars

(* the ids of knowledge base 1 resolved to no file: its stale collection   *)
(* was deleted and it is counted                                           *)
C20_Witness ==
    /\ NoMembers
    /\ knowledge_base.id = 1
    /\ knowledge_base.data.file_ids # <<>>
    /\ Len(calls) = 3
    /\ calls[2] = Call("has_collection", 0, KBCollection(1), "true")
    /\ calls[3] = Call("delete_collection", 0, KBCollection(1), "ok")
    /\ VECTOR_DB[KBCollection(1)] = NoCollection
    /\ success_count = 1

====
